---- MODULE Spec2Model ----
(***************************************************************************)
(* Model of sistema_cads.py: a console customer/order registry on SQLite. *)
(* The state is the content of the store file (tables clientes, pedidos   *)
(* and the AUTOINCREMENT bookkeeping of sqlite_sequence), the position of  *)
(* the menu loop, what the last operation printed and fetched, and the     *)
(* number of connections that were opened and not closed.  One action per  *)
(* menu choice; each action is the whole handler, from the prompts to the  *)
(* return to the top of the loop.                                          *)
(***************************************************************************)
EXTENDS Integers, Sequences, FiniteSets, TLC

\* ------------------------------------------------------------ bounds
\* AUTOINCREMENT counters are unbounded in the store; the model stops
\* inserting once this many ids were handed out.
MaxClientes == 2
MaxPedidos == 2

\* ------------------------------------------------------------ inputs
\* What the operator can type at the prompts (input() returns any string,
\* the empty one included).
Nomes == {"", "Ana"}
Emails == {"a@x", "b@x"}
Telefones == {"", "111"}
Produtos == {"Widget"}
\* float(input()) for a numeric text: amounts in cents.
Valores == {1990}
\* int(input()) for a numeric text: 0 is an id the store never assigns.
IdsDigitados == 0..MaxClientes
\* What date.today() can return when an order is added, as day numbers: the
\* wall clock, which the program does not control.
Datas == {1, 2}

\* Where the store can fail on its own (file unreachable, database locked,
\* table missing, disk full): opening the connection, running the first
\* statement, committing.
Falhas == {"none", "connect", "execute", "commit"}
SemFalhas == {"none"}

VARIABLES
    clientes,      \* table clientes: set of rows [id, nome, email, telefone]
    pedidos,       \* table pedidos: set of rows [id, produto, valor, data, cliente_id]
    seqClientes,   \* sqlite_sequence.seq for clientes
    seqPedidos,    \* sqlite_sequence.seq for pedidos
    pc,            \* "awaiting" (top of the while loop), "exited" (break), "crashed" (uncaught exception)
    saida,         \* what was printed last: [op: the function that printed, msg: the message]
    listagem,      \* the rows the last list operation fetched
    conexoes,      \* connections opened by sqlite3.connect and not closed
    historico,     \* history: the customer ids assigned so far, in order
    deletados      \* history: the ids delete_customer has removed

vars == <<clientes, pedidos, seqClientes, seqPedidos, pc, saida, listagem,
          conexoes, historico, deletados>>

\* ------------------------------------------------------------ helpers
Max(S) == CHOOSE x \in S : \A y \in S : y <= x

Ids(cs) == {c.id : c \in cs}

\* BINARY collation of the names the model uses (ORDER BY c.nome).
Colacao(n) == IF n = "" THEN 0 ELSE 1

\* ------------------------------------------------------------ the store
\* Faulty variant of ProximoId: INTEGER PRIMARY KEY without AUTOINCREMENT,
\* where the new rowid is one more than the largest rowid now in the table.
ProximoIdSemAutoincrement(ids, seq) == IF ids = {} THEN 1 ELSE Max(ids) + 1

\* INTEGER PRIMARY KEY AUTOINCREMENT: the new rowid is one more than the
\* largest rowid the table ever held (sqlite_sequence.seq), which is at
\* least the largest rowid it holds now.
ProximoId(ids, seq) == Max(ids \cup {seq}) + 1

\* Faulty variant of EmailEmUso: the column declared without UNIQUE.
EmailLivre(cs, email) == FALSE

\* email TEXT NOT NULL UNIQUE, for an INSERT: some row holds the email.
EmailEmUso(cs, email) == \E c \in cs : c.email = email

\* Faulty variant of EmailDeOutro: the updated row's own email counts as a
\* conflict.
EmailDeQualquer(cs, id, email) == \E c \in cs : c.email = email

\* email ... UNIQUE, for an UPDATE of row id: another row holds the email.
EmailDeOutro(cs, id, email) == \E c \in cs : c.id # id /\ c.email = email

\* Faulty variant of ExecInsertCliente: nome and telefone bound in the wrong
\* order.
ExecInsertClienteTrocado(cs, seq, nome, email, telefone) ==
    IF EmailEmUso(cs, email)
    THEN [status |-> "integrity", id |-> 0, clientes |-> cs, seq |-> seq]
    ELSE LET id == ProximoId(Ids(cs), seq)
         IN [status |-> "ok", id |-> id, seq |-> id,
             clientes |-> cs \cup {[id |-> id, nome |-> telefone, email |-> email,
                                    telefone |-> nome]}]

\* INSERT INTO clientes (nome, email, telefone) VALUES (?, ?, ?)
ExecInsertCliente(cs, seq, nome, email, telefone) ==
    IF EmailEmUso(cs, email)
    THEN [status |-> "integrity", id |-> 0, clientes |-> cs, seq |-> seq]
    ELSE LET id == ProximoId(Ids(cs), seq)
         IN [status |-> "ok", id |-> id, seq |-> id,
             clientes |-> cs \cup {[id |-> id, nome |-> nome, email |-> email,
                                    telefone |-> telefone]}]

\* Faulty variant of ExecUpdateCliente: the email is checked against the
\* table before the row is looked up.
ExecUpdateClienteVerificaAntes(cs, id, nome, email, telefone) ==
    LET alvo == {c \in cs : c.id = id}
    IN IF EmailDeOutro(cs, id, email)
       THEN [status |-> "integrity", rowcount |-> 0, clientes |-> cs]
       ELSE IF alvo = {}
       THEN [status |-> "ok", rowcount |-> 0, clientes |-> cs]
       ELSE [status |-> "ok", rowcount |-> 1,
             clientes |-> (cs \ alvo) \cup {[id |-> id, nome |-> nome, email |-> email,
                                             telefone |-> telefone]}]

\* UPDATE clientes SET nome = ?, email = ?, telefone = ? WHERE id = ?
\* The constraint is checked on the rows the WHERE clause selects: with no
\* such row nothing is written and nothing can conflict.
ExecUpdateCliente(cs, id, nome, email, telefone) ==
    LET alvo == {c \in cs : c.id = id}
    IN IF alvo = {}
       THEN [status |-> "ok", rowcount |-> 0, clientes |-> cs]
       ELSE IF EmailDeOutro(cs, id, email)
       THEN [status |-> "integrity", rowcount |-> 0, clientes |-> cs]
       ELSE [status |-> "ok", rowcount |-> 1,
             clientes |-> (cs \ alvo) \cup {[id |-> id, nome |-> nome, email |-> email,
                                             telefone |-> telefone]}]

\* Faulty variant of PragmaDeletar: the PRAGMA left out.
PragmaEsquecido == FALSE

\* PRAGMA foreign_keys = ON, run on deletar_cliente's connection before
\* its DELETE.
PragmaDeletar == TRUE

\* A connection on which no PRAGMA was run: enforcement is off.
PragmaPadrao == FALSE

\* DELETE FROM clientes WHERE id = ?, with FOREIGN KEY (cliente_id)
\* REFERENCES clientes (id) ON DELETE CASCADE acting when enforcement is on.
\* rowcount counts the clientes rows only.
ExecDeleteCliente(cs, ps, id, fk) ==
    LET alvo == {c \in cs : c.id = id}
    IN [rowcount |-> Cardinality(alvo),
        clientes |-> cs \ alvo,
        pedidos |-> IF fk THEN {p \in ps : p.cliente_id \notin Ids(alvo)} ELSE ps]

\* Faulty variant of ClienteExiste: the existence check left out.
ClienteSempreExiste(cs, id) == TRUE

\* SELECT id FROM clientes WHERE id = ?  followed by  cursor.fetchone()
ClienteExiste(cs, id) == \E c \in cs : c.id = id

\* INSERT INTO pedidos (cliente_id, produto, valor, data) VALUES (?, ?, ?, ?)
ExecInsertPedido(cs, ps, seq, cliente_id, produto, valor, data, fk) ==
    IF fk /\ cliente_id \notin Ids(cs)
    THEN [status |-> "integrity", pedidos |-> ps, seq |-> seq]
    ELSE LET id == ProximoId(Ids(ps), seq)
         IN [status |-> "ok", seq |-> id,
             pedidos |-> ps \cup {[id |-> id, produto |-> produto, valor |-> valor,
                                   data |-> data, cliente_id |-> cliente_id]}]

\* ------------------------------------------------------------ queries
\* The sequences holding each element of S once.
RECURSIVE Permutacoes(_)
Permutacoes(S) ==
    IF S = {} THEN {<<>>}
    ELSE UNION {{<<x>> \o q : q \in Permutacoes(S \ {x})} : x \in S}

\* SELECT id, nome, email, telefone FROM clientes: no ORDER BY, the rows
\* come in rowid order.
RECURSIVE SelectClientes(_)
SelectClientes(cs) ==
    IF cs = {} THEN <<>>
    ELSE LET primeiro == CHOOSE c \in cs : \A d \in cs : c.id <= d.id
         IN <<primeiro>> \o SelectClientes(cs \ {primeiro})

\* SELECT p.id, p.produto, p.valor, p.data, c.nome, c.email
\* FROM pedidos p JOIN clientes c ON p.cliente_id = c.id
JoinPedidosClientes(cs, ps) ==
    {[id |-> p.id, produto |-> p.produto, valor |-> p.valor, data |-> p.data,
      nome |-> c.nome, email |-> c.email] :
        <<p, c>> \in {pc2 \in ps \X cs : pc2[1].cliente_id = pc2[2].id}}

\* ORDER BY c.nome, p.data DESC: any order of the joined rows that respects
\* the two keys (rows equal on both come in an order the store chooses).
SelectPedidosComClientes(cs, ps) ==
    {q \in Permutacoes(JoinPedidosClientes(cs, ps)) :
        \A i, j \in 1..Len(q) : i < j =>
            \/ Colacao(q[i].nome) < Colacao(q[j].nome)
            \/ /\ q[i].nome = q[j].nome
               /\ q[i].data >= q[j].data}

\* ------------------------------------------------------------ the handlers
\* Each handler is given as the state it leaves, a record of the variables
\* it can write, computed from the state it starts in and its arguments.
Estado ==
    [clientes |-> clientes, pedidos |-> pedidos, seqClientes |-> seqClientes,
     seqPedidos |-> seqPedidos, pc |-> pc, saida |-> saida, listagem |-> listagem,
     conexoes |-> conexoes, historico |-> historico, deletados |-> deletados]

\* Handler op printed msg, closed its connection and returned to the menu,
\* having written nothing (a connection closed without commit rolls back).
Retorna(op, msg) ==
    [Estado EXCEPT !.saida = [op |-> op, msg |-> msg], !.listagem = <<>>]

\* An exception left handler op and menu(): the process ends with a
\* traceback, with `abertas` connections of the handler never closed.
Propaga(op, abertas) ==
    [Estado EXCEPT !.saida = [op |-> op, msg |-> "traceback"], !.listagem = <<>>,
                   !.pc = "crashed", !.conexoes = @ + abertas]

\* adicionar_cliente(nome, email, telefone)
AdicionarCliente(nome, email, telefone, falha) ==
    LET r == ExecInsertCliente(clientes, seqClientes, nome, email, telefone)
    IN IF falha = "connect"
       \* except Exception prints; finally: conn.close() finds conn unbound
       THEN Propaga("adicionar_cliente", 0)
       ELSE IF falha = "execute"
       THEN Retorna("adicionar_cliente", "erro")
       ELSE IF r.status = "integrity"
       THEN Retorna("adicionar_cliente", "email_ja_cadastrado")
       ELSE IF falha = "commit"
       THEN Retorna("adicionar_cliente", "erro")
       ELSE [Estado EXCEPT
                !.clientes = r.clientes,
                !.seqClientes = r.seq,
                !.historico = Append(@, r.id),
                !.saida = [op |-> "adicionar_cliente", msg |-> "cliente_adicionado"],
                !.listagem = <<>>]

\* listar_clientes(): no try, no finally
ListarClientes(falha) ==
    IF falha = "connect"
    THEN Propaga("listar_clientes", 0)
    ELSE IF falha = "execute"
    THEN Propaga("listar_clientes", 1)
    ELSE [Estado EXCEPT
             !.listagem = SelectClientes(clientes),
             !.saida = [op |-> "listar_clientes",
                        msg |-> IF clientes = {} THEN "nenhum_cliente"
                                ELSE "lista_de_clientes"]]

\* atualizar_cliente(cliente_id, nome, email, telefone)
AtualizarCliente(cliente_id, nome, email, telefone, falha) ==
    LET r == ExecUpdateCliente(clientes, cliente_id, nome, email, telefone)
    IN IF falha = "connect"
       THEN Propaga("atualizar_cliente", 0)
       ELSE IF falha = "execute"
       THEN Retorna("atualizar_cliente", "erro")
       ELSE IF r.status = "integrity"
       THEN Retorna("atualizar_cliente", "email_de_outro_cliente")
       ELSE IF r.rowcount = 0
       THEN Retorna("atualizar_cliente", "nenhum_cliente_encontrado")
       ELSE IF falha = "commit"
       THEN Retorna("atualizar_cliente", "erro")
       ELSE [Estado EXCEPT
                !.clientes = r.clientes,
                !.saida = [op |-> "atualizar_cliente", msg |-> "cliente_atualizado"],
                !.listagem = <<>>]

\* deletar_cliente(cliente_id)
DeletarCliente(cliente_id, falha) ==
    LET r == ExecDeleteCliente(clientes, pedidos, cliente_id, PragmaDeletar)
    IN IF falha = "connect"
       THEN Propaga("deletar_cliente", 0)
       ELSE IF falha = "execute"
       THEN Retorna("deletar_cliente", "erro")
       ELSE IF r.rowcount = 0
       THEN Retorna("deletar_cliente", "nenhum_cliente_encontrado")
       ELSE IF falha = "commit"
       THEN Retorna("deletar_cliente", "erro")
       ELSE [Estado EXCEPT
                !.clientes = r.clientes,
                !.pedidos = r.pedidos,
                !.deletados = @ \cup {cliente_id},
                !.saida = [op |-> "deletar_cliente", msg |-> "cliente_deletado"],
                !.listagem = <<>>]

\* Faulty variant of AdicionarPedido: the return after the not-found
\* message left out, so the INSERT runs all the same.
AdicionarPedidoSemReturn(cliente_id, produto, valor, data_hoje, falha) ==
    LET r == ExecInsertPedido(clientes, pedidos, seqPedidos, cliente_id, produto,
                              valor, data_hoje, PragmaPadrao)
    IN IF falha = "connect"
       THEN Propaga("adicionar_pedido", 0)
       ELSE IF falha = "execute" \/ r.status = "integrity" \/ falha = "commit"
       THEN Retorna("adicionar_pedido", "erro")
       ELSE [Estado EXCEPT
                !.pedidos = r.pedidos,
                !.seqPedidos = r.seq,
                !.saida = [op |-> "adicionar_pedido", msg |-> "pedido_adicionado"],
                !.listagem = <<>>]

\* adicionar_pedido(cliente_id, produto, valor); data_hoje is what
\* date.today().isoformat() gives during the call.
AdicionarPedido(cliente_id, produto, valor, data_hoje, falha) ==
    LET r == ExecInsertPedido(clientes, pedidos, seqPedidos, cliente_id, produto,
                              valor, data_hoje, PragmaPadrao)
    IN IF falha = "connect"
       THEN Propaga("adicionar_pedido", 0)
       ELSE IF falha = "execute"
       THEN Retorna("adicionar_pedido", "erro")
       ELSE IF ~ClienteExiste(clientes, cliente_id)
       \* return inside try: finally closes the connection
       THEN Retorna("adicionar_pedido", "cliente_nao_encontrado")
       ELSE IF r.status = "integrity" \/ falha = "commit"
       THEN Retorna("adicionar_pedido", "erro")
       ELSE [Estado EXCEPT
                !.pedidos = r.pedidos,
                !.seqPedidos = r.seq,
                !.saida = [op |-> "adicionar_pedido", msg |-> "pedido_adicionado"],
                !.listagem = <<>>]

\* listar_pedidos_com_clientes(): no try, no finally.  `linhas` is what
\* fetchall() returns when the query runs.
ListarPedidosComClientes(linhas, falha) ==
    IF falha = "connect"
    THEN Propaga("listar_pedidos_com_clientes", 0)
    ELSE IF falha = "execute"
    THEN Propaga("listar_pedidos_com_clientes", 1)
    ELSE [Estado EXCEPT
             !.listagem = linhas,
             !.saida = [op |-> "listar_pedidos_com_clientes",
                        msg |-> IF linhas = <<>> THEN "nenhum_pedido"
                                ELSE "lista_de_pedidos"]]

\* ------------------------------------------------------------ menu()
\* The step to the state e that a handler leaves.
Vai(e) ==
    /\ clientes' = e.clientes
    /\ pedidos' = e.pedidos
    /\ seqClientes' = e.seqClientes
    /\ seqPedidos' = e.seqPedidos
    /\ pc' = e.pc
    /\ saida' = e.saida
    /\ listagem' = e.listagem
    /\ conexoes' = e.conexoes
    /\ historico' = e.historico
    /\ deletados' = e.deletados

\* One pass of the while loop for each choice; F is the set of store
\* failures the environment may produce during the pass.
Escolha1(F) ==
    /\ pc = "awaiting"
    /\ \E nome \in Nomes, email \in Emails, telefone \in Telefones, falha \in F :
        /\ ~EmailEmUso(clientes, email) => seqClientes < MaxClientes
        /\ Vai(AdicionarCliente(nome, email, telefone, falha))

Escolha2(F) ==
    /\ pc = "awaiting"
    /\ \E falha \in F \ {"commit"} : Vai(ListarClientes(falha))

\* int(input()) raising ValueError: reported, the operation is not called.
NumeroInvalido(msg) == Retorna("menu", msg)

Escolha3(F) ==
    /\ pc = "awaiting"
    /\ \/ \E cliente_id \in IdsDigitados, nome \in Nomes, email \in Emails,
            telefone \in Telefones, falha \in F :
              Vai(AtualizarCliente(cliente_id, nome, email, telefone, falha))
       \/ Vai(NumeroInvalido("id_invalido"))

Escolha4(F) ==
    /\ pc = "awaiting"
    /\ \/ \E cliente_id \in IdsDigitados, falha \in F :
              Vai(DeletarCliente(cliente_id, falha))
       \/ Vai(NumeroInvalido("id_invalido"))

Escolha5(F) ==
    /\ pc = "awaiting"
    /\ \/ \E cliente_id \in IdsDigitados, produto \in Produtos, valor \in Valores,
            data_hoje \in Datas, falha \in F :
              /\ ClienteExiste(clientes, cliente_id) => seqPedidos < MaxPedidos
              /\ Vai(AdicionarPedido(cliente_id, produto, valor, data_hoje, falha))
       \/ Vai(NumeroInvalido("id_ou_valor_invalido"))

Escolha6(F) ==
    /\ pc = "awaiting"
    /\ \E falha \in F \ {"commit"} :
         \E linhas \in SelectPedidosComClientes(clientes, pedidos) :
             Vai(ListarPedidosComClientes(linhas, falha))

\* escolha == '0': break
Escolha0 ==
    /\ pc = "awaiting"
    /\ Vai([Retorna("menu", "saindo") EXCEPT !.pc = "exited"])

\* any other text
OpcaoInvalida ==
    /\ pc = "awaiting"
    /\ Vai(Retorna("menu", "opcao_invalida"))

\* After setup_database() on a new file: both tables exist and are empty.
Init ==
    /\ clientes = {}
    /\ pedidos = {}
    /\ seqClientes = 0
    /\ seqPedidos = 0
    /\ pc = "awaiting"
    /\ saida = [op |-> "menu", msg |-> "inicio"]
    /\ listagem = <<>>
    /\ conexoes = 0
    /\ historico = <<>>
    /\ deletados = {}

Menu(F) ==
    \/ Escolha1(F)
    \/ Escolha2(F)
    \/ Escolha3(F)
    \/ Escolha4(F)
    \/ Escolha5(F)
    \/ Escolha6(F)
    \/ Escolha0
    \/ OpcaoInvalida

\* The store never fails on its own.
Next == Menu(SemFalhas)

Spec == Init /\ [][Next]_vars

\* The store may fail at any connect, statement or commit.
NextFalha == Menu(Falhas)

SpecFalha == Init /\ [][NextFalha]_vars

\* ------------------------------------------------------------ properties
\* The properties of one call are stated for every reachable state the call
\* can start in and every argument: the state the handler leaves is compared
\* with the one it started in.
Existe(cs, id) == \E c \in cs : c.id = id

PedidosDe(ps, id) == {p \in ps : p.cliente_id = id}

Msg(op, msg) == [op |-> op, msg |-> msg]

\* C1: delete_customer(c) on an existing customer c that owns N >= 0 orders
\* removes c and its N orders in the same step, a following
\* list_orders_with_customers holds none of those orders, and every other
\* customer and every order of another customer is left as it was.
C1_DeleteCascades ==
    \A c \in IdsDigitados :
        Existe(clientes, c) =>
            LET e == DeletarCliente(c, "none")
            IN /\ e.saida = Msg("deletar_cliente", "cliente_deletado")
               /\ ~Existe(e.clientes, c)
               /\ PedidosDe(e.pedidos, c) = {}
               /\ e.clientes = {k \in clientes : k.id # c}
               /\ e.pedidos = pedidos \ PedidosDe(pedidos, c)
               /\ \A q \in SelectPedidosComClientes(e.clientes, e.pedidos) :
                    \A i \in 1..Len(q) :
                       q[i].id \notin {p.id : p \in PedidosDe(pedidos, c)}

\* A customer was just deleted together with an order it owned, while
\* another customer and that customer's order stayed.
C1_Witness ==
    /\ saida = Msg("deletar_cliente", "cliente_deletado")
    /\ seqPedidos = 2
    /\ Cardinality(pedidos) = 1
    /\ Cardinality(clientes) = 1
    /\ Cardinality(deletados) = 1

\* C2: in every reachable state every order's cliente_id is the id of a
\* customer in the customers table, and the inner join of
\* list_orders_with_customers has as many rows as the orders table.
C2_NoOrphanOrder ==
    /\ \A p \in pedidos : Existe(clientes, p.cliente_id)
    /\ Cardinality(JoinPedidosClientes(clientes, pedidos)) = Cardinality(pedidos)
    /\ \A q \in SelectPedidosComClientes(clientes, pedidos) : Len(q) = Cardinality(pedidos)

\* Orders exist after a customer that owned an order was deleted.
C2_Witness ==
    /\ deletados # {}
    /\ pedidos # {}
    /\ Cardinality(pedidos) < seqPedidos

\* C3: add_customer with an email an existing customer holds reports the
\* uniqueness conflict and inserts nothing: both tables are as before,
\* whatever name and phone were given.
C3_DuplicateEmailRejected ==
    \A nome \in Nomes, email \in Emails, telefone \in Telefones :
        (\E c \in clientes : c.email = email) =>
            LET e == AdicionarCliente(nome, email, telefone, "none")
            IN /\ e.saida = Msg("adicionar_cliente", "email_ja_cadastrado")
               /\ e.clientes = clientes
               /\ e.pedidos = pedidos
               /\ e.seqClientes = seqClientes

\* A second add with a held email was just refused, orders present.
C3_Witness ==
    /\ saida = Msg("adicionar_cliente", "email_ja_cadastrado")
    /\ clientes # {}
    /\ pedidos # {}

\* C4: update_customer on an existing id with an email a different customer
\* holds reports the conflict and changes no row; with the target's own
\* email it is no conflict and the row takes the new name and phone.
C4_UpdateEmailConflict ==
    \A id \in IdsDigitados, nome \in Nomes, email \in Emails, telefone \in Telefones :
        Existe(clientes, id) =>
            LET e == AtualizarCliente(id, nome, email, telefone, "none")
            IN /\ (\E c \in clientes : c.id # id /\ c.email = email) =>
                    /\ e.saida = Msg("atualizar_cliente", "email_de_outro_cliente")
                    /\ e.clientes = clientes
                    /\ e.pedidos = pedidos
               /\ (\E c \in clientes : c.id = id /\ c.email = email) =>
                    /\ e.saida = Msg("atualizar_cliente", "cliente_atualizado")
                    /\ e.clientes = {k \in clientes : k.id # id}
                          \cup {[id |-> id, nome |-> nome, email |-> email,
                                 telefone |-> telefone]}
                    /\ e.pedidos = pedidos

\* An update was just refused for an email of the other customer.
C4_Witness ==
    /\ saida = Msg("atualizar_cliente", "email_de_outro_cliente")
    /\ Cardinality(clientes) = 2

\* C5: update_customer with an id no customer has reports not-found and
\* changes no row, also when the email given is held by a customer (the
\* report is not-found, not the conflict).
C5_UpdateNotFound ==
    \A id \in IdsDigitados, nome \in Nomes, email \in Emails, telefone \in Telefones :
        ~Existe(clientes, id) =>
            LET e == AtualizarCliente(id, nome, email, telefone, "none")
            IN /\ e.saida = Msg("atualizar_cliente", "nenhum_cliente_encontrado")
               /\ e.clientes = clientes
               /\ e.pedidos = pedidos

\* Not-found was just reported by an update while a customer holds each
\* email the operator can give.
C5_Witness ==
    /\ saida = Msg("atualizar_cliente", "nenhum_cliente_encontrado")
    /\ \A email \in Emails : \E c \in clientes : c.email = email

\* C6: add_order with a customer_id no customer has (never created, or
\* deleted) reports customer-not-found and inserts nothing; with an existing
\* customer_id it adds exactly one order, carrying that customer_id, and
\* changes no other row.
C6_AddOrderChecksCustomer ==
    \A id \in IdsDigitados, produto \in Produtos, valor \in Valores, data \in Datas :
        LET e == AdicionarPedido(id, produto, valor, data, "none")
        IN IF \E c \in clientes : c.id = id
           THEN /\ e.saida = Msg("adicionar_pedido", "pedido_adicionado")
                /\ \E p \in e.pedidos \ pedidos :
                     /\ e.pedidos = pedidos \cup {p}
                     /\ p.cliente_id = id
                     /\ p.produto = produto
                     /\ p.valor = valor
                     /\ p.id \notin Ids(pedidos)
                /\ Cardinality(e.pedidos) = Cardinality(pedidos) + 1
                /\ e.clientes = clientes
           ELSE /\ e.saida = Msg("adicionar_pedido", "cliente_nao_encontrado")
                /\ e.pedidos = pedidos
                /\ e.clientes = clientes

\* An order was just refused while orders and a deleted customer exist.
C6_Witness ==
    /\ saida = Msg("adicionar_pedido", "cliente_nao_encontrado")
    /\ deletados # {}
    /\ pedidos # {}

\* C7: add_customer with an email no customer holds succeeds for any name
\* and phone, the empty ones included: exactly one row is added, under an id
\* no row has, list_customers then returns that row with the name, email and
\* phone given, and the rows that were there are unchanged.
C7_FreshEmailAdded ==
    \A nome \in Nomes, email \in Emails, telefone \in Telefones :
        ~(\E c \in clientes : c.email = email) =>
            LET e == AdicionarCliente(nome, email, telefone, "none")
            IN /\ e.saida = Msg("adicionar_cliente", "cliente_adicionado")
               /\ \E id \in (1..e.seqClientes) \ Ids(clientes) :
                    LET novo == [id |-> id, nome |-> nome, email |-> email,
                                 telefone |-> telefone]
                    IN /\ id \notin {historico[i] : i \in 1..Len(historico)}
                       /\ e.clientes = clientes \cup {novo}
                       /\ \E i \in 1..Len(SelectClientes(e.clientes)) :
                            SelectClientes(e.clientes)[i] = novo
               /\ Cardinality(e.clientes) = Cardinality(clientes) + 1
               /\ e.pedidos = pedidos

\* A customer with empty name and phone was just added beside another one.
C7_Witness ==
    /\ saida = Msg("adicionar_cliente", "cliente_adicionado")
    /\ Cardinality(clientes) = 2
    /\ \E c \in clientes : c.id = seqClientes /\ c.nome = "" /\ c.telefone = ""

\* C8: no error ends the command loop: it leaves the awaiting-choice state
\* only by choice 0.
C8_OnlyChoice0LeavesLoop ==
    [][(pc = "awaiting" /\ pc' # "awaiting") => saida' = Msg("menu", "saindo")]_vars

\* C9: whenever control is outside the six operations, every connection an
\* operation opened has been closed.
C9_ConnectionsReleased == conexoes = 0

\* C10: customer ids are never reused: each id assigned is greater than
\* every id assigned before, a deleted id belongs to no customer in any later
\* state, so add_order on it reports customer-not-found; update_customer
\* keeps the row's id, and an order keeps its customer_id.
C10_IdsNeverReused ==
    /\ \A i, j \in 1..Len(historico) : i < j => historico[i] < historico[j]
    /\ Ids(clientes) \subseteq {historico[i] : i \in 1..Len(historico)}
    /\ deletados \cap Ids(clientes) = {}
    /\ \A id \in IdsDigitados, nome \in Nomes, email \in Emails, telefone \in Telefones :
         Ids(AtualizarCliente(id, nome, email, telefone, "none").clientes) = Ids(clientes)
    /\ \A id \in IdsDigitados, produto \in Produtos, valor \in Valores, data \in Datas :
         LET e == AdicionarPedido(id, produto, valor, data, "none")
         IN /\ id \in deletados =>
                 /\ e.saida = Msg("adicionar_pedido", "cliente_nao_encontrado")
                 /\ e.pedidos = pedidos
            /\ \A p \in pedidos, q \in e.pedidos : p.id = q.id => p = q
    /\ \A id \in IdsDigitados :
         \A p \in pedidos, q \in DeletarCliente(id, "none").pedidos : p.id = q.id => p = q

\* A customer was added after another was deleted, and an order on the
\* deleted id was just refused.
C10_Witness ==
    /\ deletados # {}
    /\ clientes # {}
    /\ Len(historico) = 2
    /\ saida = Msg("adicionar_pedido", "cliente_nao_encontrado")

====
